---- MODULE Spec2Model ----
(***************************************************************************)
(* TrustScholar: the document confidentiality and authenticity pipeline.   *)
(*                                                                         *)
(* Cryptographic values are symbolic terms: a ciphertext records the key   *)
(* and the text it was made from, a signature records the signing key and  *)
(* the signed data, a digest records its input.  The operators below are   *)
(* named after the functions of backend/utils/encryption.js and            *)
(* backend/utils/encoding.js and compose exactly as the code composes      *)
(* them.  Request handlers are split at the awaits at which another        *)
(* request can run.                                                        *)
(***************************************************************************)
EXTENDS Integers, Sequences, FiniteSets, TLC

\* ------------------------------------------------------------------------
\* Bounds of the model
\* ------------------------------------------------------------------------
MaxKeyPairs == 2   \* RSA key pairs generated for one user

Users == {"u1", "u2"}            \* accounts (students)
Slots == {"r1", "r2"}            \* requests that can be in flight together
Scholarships == {"s1"}
AppIds == {"a1"}                 \* Application ids
DocIds == {"d1"}                 \* Document ids
FileContents == {"", "hello-world"}   \* uploaded file bytes ("" = 0 bytes)

\* ------------------------------------------------------------------------
\* Values
\* ------------------------------------------------------------------------
Nil == [type |-> "nil"]
Undefined == [type |-> "undefined"]
EmptyString == [type |-> "string", s |-> ""]
GarbageString == [type |-> "string", s |-> "<garbage>"]
Bytes(s) == [type |-> "bytes", s |-> s]
GarbageBytes == [type |-> "bytes", s |-> "<garbage>"]

Returned(v) == [ok |-> TRUE, value |-> v]
Thrown(msg) == [ok |-> FALSE, error |-> msg]

\* throw new Error(msg + error.message) in a catch: the message of the
\* caught error e is part of the new one.
Rethrown(msg, e) == [ok |-> FALSE, error |-> msg, cause |-> e.error]

\* A random draw is named by what it is made for (a user, an application,
\* a document) and its number.
\* AES_SECRET: the process-wide secret, which is no random draw.
AES_SECRET == [type |-> "passphrase", id |-> <<"AES_SECRET_KEY", 0>>]

PublicKeyPem(k) == [type |-> "rsa-public", id |-> k]
PrivateKeyPem(k) == [type |-> "rsa-private", id |-> k]

\* ------------------------------------------------------------------------
\* utils/encoding.js
\* ------------------------------------------------------------------------
\* Buffer.toString('binary'): one character per byte.
BinaryString(buf) ==
    IF buf = Bytes("") THEN EmptyString ELSE [type |-> "latin1", of |-> buf]

\* Buffer.from(str, 'binary')
BufferFromBinary(str) ==
    IF str = EmptyString THEN Bytes("")
    ELSE IF str.type = "latin1" THEN str.of
    ELSE GarbageBytes

\* Buffer.from(data, 'utf-8').toString('base64'); '' encodes to ''.
encodeBase64(data) ==
    IF data = EmptyString THEN EmptyString ELSE [type |-> "base64", of |-> data]

\* Buffer.from(encodedData, 'base64').toString('utf-8'); never throws.
decodeBase64(encodedData) ==
    IF encodedData = EmptyString THEN EmptyString
    ELSE IF encodedData.type = "base64" THEN encodedData.of
    ELSE GarbageString

\* JSON.stringify({ data, iv }) / JSON.stringify({ data, encryptedKey, iv })
JSONstringify(obj) == [type |-> "json", obj |-> obj]

\* JSON.parse
JSONparse(str) ==
    IF str.type = "json" THEN Returned(str.obj)
    ELSE Thrown("Unexpected token")

\* ------------------------------------------------------------------------
\* utils/encryption.js
\* ------------------------------------------------------------------------
\* encryptAES: CryptoJS passphrase mode; n is the random draw of the call
\* (salt and IV).
encryptAES(plainText, secretKey, n) ==
    [encryptedData |-> [type |-> "aes", salt |-> n, key |-> secretKey,
                        text |-> plainText],
     iv |-> [type |-> "iv", id |-> n]]

\* decryptAES: with the passphrase that encrypted an intact ciphertext the
\* text comes back.  Otherwise the CBC/Pkcs7 layer does not fail by itself:
\* the bytes that come out are either rejected by the UTF-8 conversion (a
\* throw), or returned as an empty or a garbage string.
decryptAES(encryptedData, iv, secretKey) ==
    IF encryptedData.type = "aes" /\ encryptedData.key = secretKey
    THEN {Returned(encryptedData.text)}
    ELSE {Thrown("Decryption failed: Malformed UTF-8 data"),
          Returned(EmptyString), Returned(GarbageString)}

\* generateRSAKeyPair: n is the random draw of the call.
generateRSAKeyPair(n) ==
    [publicKey |-> PublicKeyPem(n), privateKey |-> PrivateKeyPem(n)]

encryptRSA(data, publicKey) ==
    IF publicKey.type = "rsa-public"
    THEN Returned([type |-> "rsa", key |-> publicKey.id, text |-> data])
    ELSE Thrown("RSA encryption failed")

\* A decryptRSA without the OAEP check (raw RSA): a ciphertext made for
\* another key comes out as some other bytes instead of being rejected.
decryptRSA_unpadded(encryptedData, privateKey) ==
    IF privateKey.type # "rsa-private" \/ encryptedData.type # "rsa"
    THEN Thrown("RSA decryption failed")
    ELSE IF encryptedData.key = privateKey.id
    THEN Returned(encryptedData.text)
    ELSE Returned([type |-> "passphrase", id |-> <<"<garbage>", 0>>])

\* decryptRSA: OAEP unpadding rejects a ciphertext made for another key.
decryptRSA(encryptedData, privateKey) ==
    IF /\ privateKey.type = "rsa-private"
       /\ encryptedData.type = "rsa"
       /\ encryptedData.key = privateKey.id
    THEN Returned(encryptedData.text)
    ELSE Thrown("RSA decryption failed")

\* A hybridEncrypt that leaves the key out of the encryptAES call, which
\* then falls back on the process-wide secret.
hybridEncrypt_secretKey(data, publicKey, n) ==
    LET aesKey == AES_SECRET
        enc == encryptAES(data, aesKey, n)
        encryptedKey == encryptRSA(aesKey, publicKey)
    IN  IF encryptedKey.ok
        THEN Returned([encryptedData |-> enc.encryptedData,
                       encryptedKey |-> encryptedKey.value,
                       iv |-> enc.iv])
        ELSE Thrown("Hybrid encryption failed")

\* hybridEncrypt: n is the random draw of the call (AES key, salt, IV).
hybridEncrypt(data, publicKey, n) ==
    LET aesKey == [type |-> "passphrase", id |-> n]
        enc == encryptAES(data, aesKey, n)
        encryptedKey == encryptRSA(aesKey, publicKey)
    IN  IF encryptedKey.ok
        THEN Returned([encryptedData |-> enc.encryptedData,
                       encryptedKey |-> encryptedKey.value,
                       iv |-> enc.iv])
        ELSE Thrown("Hybrid encryption failed")

\* A hybridDecrypt that leaves the unwrapped AES key out of the decryptAES
\* call, which then falls back on its default key.
hybridDecrypt_defaultKey(encryptedData, encryptedKey, iv, privateKey) ==
    LET aesKey == decryptRSA(encryptedKey, privateKey)
    IN  IF ~aesKey.ok THEN {Rethrown("Hybrid decryption failed", aesKey)}
        ELSE {IF r.ok THEN r ELSE Rethrown("Hybrid decryption failed", r) :
                r \in decryptAES(encryptedData, iv, AES_SECRET)}

\* hybridDecrypt: the set of outcomes of the call.  The catch rethrows
\* 'Hybrid decryption failed: ' + error.message, for either layer.
hybridDecrypt(encryptedData, encryptedKey, iv, privateKey) ==
    LET aesKey == decryptRSA(encryptedKey, privateKey)
    IN  IF ~aesKey.ok THEN {Rethrown("Hybrid decryption failed", aesKey)}
        ELSE {IF r.ok THEN r ELSE Rethrown("Hybrid decryption failed", r) :
                r \in decryptAES(encryptedData, iv, aesKey.value)}

\* A digest that tells an empty input from a non-empty one, and no more.
createHashSHA512_emptiness(data) ==
    LET buffer == IF data.type = "bytes" THEN data ELSE Bytes(data.s)
    IN  [type |-> "sha512", of |-> Bytes(IF buffer.s = "" THEN "" ELSE "*")]

\* createHashSHA512: Buffer.isBuffer(data) ? data : Buffer.from(String(data)),
\* then the SHA-512 digest of the bytes, in hex.
createHashSHA512(data) ==
    LET buffer == IF data.type = "bytes" THEN data ELSE Bytes(data.s)
    IN  [type |-> "sha512", of |-> buffer]

createDigitalSignature(data, privateKey) ==
    IF privateKey.type = "rsa-private"
    THEN Returned([type |-> "signature", key |-> privateKey.id, data |-> data])
    ELSE Thrown("Digital signature creation failed")

\* A verification that checks the signed data and not the signing key.
verifyDigitalSignature_anyKey(data, signature, publicKey) ==
    /\ publicKey.type = "rsa-public"
    /\ signature.type = "signature"
    /\ signature.data = data

\* A public key that is no PEM, and a signature string that is no base64
\* of an RSA signature.
MalformedKey == [type |-> "malformed-key", id |-> <<"", 0>>]
MalformedSignature == [type |-> "malformed-signature"]

\* Buffer.from(signature, 'base64') and crypto.verify('RSA-SHA512', ...):
\* Buffer.from decodes whatever characters are base64 and does not throw,
\* crypto.verify throws on a key it cannot read and answers false for
\* bytes that are no signature of the data under the key.
cryptoVerify(data, signature, publicKey) ==
    IF publicKey.type # "rsa-public"
    THEN Thrown("error:1E08010C:DECODER routines::unsupported")
    ELSE Returned(/\ signature.type = "signature"
                  /\ signature.key = publicKey.id
                  /\ signature.data = data)

\* The outcome of a call of verifyDigitalSignature: the catch logs the
\* error and returns false.
verifyDigitalSignatureCall(data, signature, publicKey) ==
    LET r == cryptoVerify(data, signature, publicKey)
    IN  IF r.ok THEN r ELSE Returned(FALSE)

\* verifyDigitalSignature: the boolean a call returns (every error is
\* caught and answered with false).
verifyDigitalSignature(data, signature, publicKey) ==
    verifyDigitalSignatureCall(data, signature, publicKey).value

\* ------------------------------------------------------------------------
\* State
\* ------------------------------------------------------------------------
VARIABLES
    users,      \* User collection: account -> record
    apps,       \* Application collection: id -> record
    docs,       \* Document collection: id -> record
    disk,       \* uploads directory: the file of each Document
    reqs,       \* the requests in flight: slot -> position and locals
    response,   \* the response a document read is sending (Nil otherwise)
    uploaded,   \* history: what each upload persisted, as first written
    draws,      \* history: the code that generated each key pair of each user
    cin,        \* inputs of the calls made on the utilities alone
    cout,       \* their results
    now,        \* Date.now(), in milliseconds since the first request
    issued,     \* history: the verification codes issued for each
                \* application, in order
    otpStore,   \* the in-memory Map of one-time codes: key -> entry
    timers,     \* the setTimeout callbacks of storeOTP that are pending
    otpLog,     \* history: the codes stored under each key, in order
    passwordChecked   \* history: a login of the email passed its password
                      \* check and no token was issued since

vars == <<users, apps, docs, disk, reqs, response, uploaded, draws, cin, cout,
          now, issued, otpStore, timers, otpLog, passwordChecked>>

NoUser == [exists |-> FALSE, publicKey |-> Undefined, privateKey |-> Undefined]
NoApp == [exists |-> FALSE]
NoDoc == [exists |-> FALSE]
Idle == [kind |-> "idle", pc |-> "idle"]

Truthy(v) == v # Undefined /\ v # Nil /\ v # EmptyString

HasKeys(user) == Truthy(user.publicKey) /\ Truthy(user.privateKey)

\* The random draw of the next key pair generated for user u, and the draw
\* of the hybridEncrypt call made for a new record x.
Draw(u) == <<u, Len(draws[u]) + 1>>
CanDraw(u) == Len(draws[u]) < MaxKeyPairs
RecordDraw(x) == <<x, 0>>

\* Key fields with the private key PEM stored as generated.
NewKeyFields_plaintext(n) ==
    LET pair == generateRSAKeyPair(n)
    IN  [publicKey |-> pair.publicKey, privateKey |-> pair.privateKey]

\* The key fields written by each path that generates a key pair:
\* generateRSAKeyPair, encryptAES(privateKey), JSON.stringify({ data, iv }).
NewKeyFields(n) ==
    LET pair == generateRSAKeyPair(n)
        e == encryptAES(pair.privateKey, AES_SECRET, n)
    IN  [publicKey |-> pair.publicKey,
         privateKey |-> JSONstringify([data |-> e.encryptedData, iv |-> e.iv])]

\* An ensureUserKeys that assigns user.publicKey and leaves user.privateKey.
ensureUserKeys_publicKeyOnly(user, n) ==
    IF user.exists /\ HasKeys(user)
    THEN [ok |-> TRUE, save |-> FALSE, user |-> user]
    ELSE IF ~user.exists
    THEN [ok |-> FALSE, save |-> FALSE, user |-> user]
    ELSE [ok |-> TRUE, save |-> TRUE,
          user |-> [user EXCEPT !.publicKey = NewKeyFields(n).publicKey]]

\* ensureUserKeys(user), on the document the caller has read: the document
\* it returns, and whether user.save() is called; a null user throws.
ensureUserKeys(user, n) ==
    IF user.exists /\ HasKeys(user)
    THEN [ok |-> TRUE, save |-> FALSE, user |-> user]
    ELSE IF ~user.exists
    THEN [ok |-> FALSE, save |-> FALSE, user |-> user]
    ELSE [ok |-> TRUE, save |-> TRUE,
          user |-> [user EXCEPT !.publicKey = NewKeyFields(n).publicKey,
                                !.privateKey = NewKeyFields(n).privateKey]]

\* const keyData = JSON.parse(user.privateKey);
\* const privateKey = decryptAES(keyData.data, keyData.iv);
RevealPrivateKey(user) ==
    LET keyData == JSONparse(user.privateKey)
    IN  IF ~keyData.ok THEN {Thrown("Unexpected token")}
        ELSE decryptAES(keyData.value.data, keyData.value.iv, AES_SECRET)

Init ==
    /\ users = [u \in Users |-> NoUser]
    /\ apps = [a \in AppIds |-> NoApp]
    /\ docs = [d \in DocIds |-> NoDoc]
    /\ disk = [d \in DocIds |-> Nil]
    /\ reqs = [s \in Slots |-> Idle]
    /\ response = Nil
    /\ uploaded = [d \in DocIds |-> Nil]
    /\ draws = [u \in Users |-> <<>>]
    /\ cin = Nil
    /\ cout = Nil
    /\ now = 0
    /\ issued = [a \in AppIds |-> <<>>]
    /\ otpStore = Nil
    /\ timers = {}
    /\ otpLog = Nil
    /\ passwordChecked = Nil

\* ------------------------------------------------------------------------
\* Accounts: POST /auth/register, POST /users (admin), POST /auth/google
\* ------------------------------------------------------------------------
\* POST /auth/register: User.create with a fresh key pair.
Register(u) ==
    /\ ~users[u].exists
    /\ CanDraw(u)
    /\ users' = [users EXCEPT ![u] =
                   [exists |-> TRUE,
                    publicKey |-> NewKeyFields(Draw(u)).publicKey,
                    privateKey |-> NewKeyFields(Draw(u)).privateKey]]
    /\ draws' = [draws EXCEPT ![u] = Append(@, "User.create")]
    /\ response' = Nil
    /\ UNCHANGED <<apps, docs, disk, reqs, uploaded, cin, cout, now, issued,
                   otpStore, timers, otpLog, passwordChecked>>

\* POST /users (admin): User.create without key material.
AdminCreateUser(u) ==
    /\ ~users[u].exists
    /\ users' = [users EXCEPT ![u] = [NoUser EXCEPT !.exists = TRUE]]
    /\ response' = Nil
    /\ UNCHANGED <<apps, docs, disk, reqs, uploaded, draws, cin, cout, now, issued,
                   otpStore, timers, otpLog, passwordChecked>>

\* POST /auth/google for a Google account that has no user: User.create
\* with a fresh key pair.
GoogleCreate(u) ==
    /\ ~users[u].exists
    /\ CanDraw(u)
    /\ users' = [users EXCEPT ![u] =
                   [exists |-> TRUE,
                    publicKey |-> NewKeyFields(Draw(u)).publicKey,
                    privateKey |-> NewKeyFields(Draw(u)).privateKey]]
    /\ draws' = [draws EXCEPT ![u] = Append(@, "User.create")]
    /\ response' = Nil
    /\ UNCHANGED <<apps, docs, disk, reqs, uploaded, cin, cout, now, issued,
                   otpStore, timers, otpLog, passwordChecked>>

\* POST /auth/google for an existing user, up to the await that follows
\* User.findOne (linking the googleId leaves the key fields alone): a user
\* document without keys goes on to generate them.
GoogleStart(s, u) ==
    /\ reqs[s] = Idle
    /\ users[u].exists
    /\ ~HasKeys(users[u])
    /\ reqs' = [reqs EXCEPT ![s] =
          [kind |-> "google", uid |-> u, user |-> users[u], pc |-> "ensure"]]
    /\ response' = Nil
    /\ UNCHANGED <<users, apps, docs, disk, uploaded, draws, cin, cout, now, issued,
                   otpStore, timers, otpLog, passwordChecked>>

\* ------------------------------------------------------------------------
\* ensureUserKeys on a user document without keys: generate, assign,
\* await user.save().  The save writes publicKey and privateKey as they are
\* in the caller's document, whatever the stored user holds by then.
\* ------------------------------------------------------------------------
EnsureSave(s) ==
    /\ reqs[s].kind # "idle" /\ reqs[s].pc = "ensure"
    /\ CanDraw(reqs[s].uid)
    /\ LET u == reqs[s].uid
           r == ensureUserKeys(reqs[s].user, Draw(u))
       IN  /\ r.ok /\ r.save
           /\ users' = [users EXCEPT ![u].publicKey = r.user.publicKey,
                                     ![u].privateKey = r.user.privateKey]
           /\ draws' = [draws EXCEPT ![u] =
                 Append(@, IF reqs[s].kind = "google" THEN "google"
                           ELSE "ensureUserKeys")]
           /\ reqs' = IF reqs[s].kind = "google"
                      THEN [reqs EXCEPT ![s] = Idle]
                      ELSE [reqs EXCEPT ![s].user = r.user, ![s].pc = "finish"]
    /\ response' = Nil
    /\ UNCHANGED <<apps, docs, disk, uploaded, cin, cout, now, issued,
                   otpStore, timers, otpLog, passwordChecked>>

\* The position after `await ensureUserKeys(await User.findById(id))`: a
\* user that has keys is returned without another await.
AfterFind(user) ==
    LET r == ensureUserKeys(user, <<"", 0>>)
    IN  IF r.ok /\ ~r.save THEN "finish" ELSE "ensure"

\* ------------------------------------------------------------------------
\* POST /applications (create application)
\* ------------------------------------------------------------------------
SensitiveData == [type |-> "string", s |-> "{address}"]

\* generateApplicationNumber: `APP${year}-${random}`, as its parts between
\* hyphens; the random part is named after the application it is drawn for.
generateApplicationNumber(a) == <<"APP2026", a>>

\* Up to the await of User.findById: the duplicate check, then the user.
CreateAppStart(s, u, sch) ==
    /\ reqs[s] = Idle
    /\ users[u].exists
    /\ \E a \in DOMAIN apps : ~apps[a].exists
    /\ ~\E a \in DOMAIN apps :
          apps[a].exists /\ apps[a].userId = u /\ apps[a].scholarshipId = sch
    /\ reqs' = [reqs EXCEPT ![s] =
          [kind |-> "createApp", uid |-> u, sch |-> sch,
           user |-> users[u], pc |-> AfterFind(users[u])]]
    /\ response' = Nil
    /\ UNCHANGED <<users, apps, docs, disk, uploaded, draws, cin, cout, now, issued,
                   otpStore, timers, otpLog, passwordChecked>>

\* hybridEncrypt of the sensitive fields with the public key of the
\* caller's user document, then Application.create.
CreateAppFinish(s) ==
    /\ reqs[s].kind = "createApp" /\ reqs[s].pc = "finish"
    /\ \E a \in DOMAIN apps : ~apps[a].exists
    /\ LET u == reqs[s].uid
           a == CHOOSE x \in DOMAIN apps : ~apps[x].exists
           h == hybridEncrypt(SensitiveData, reqs[s].user.publicKey,
                              RecordDraw(a))
       IN  /\ h.ok
           /\ apps' = [apps EXCEPT ![a] =
                 [exists |-> TRUE, userId |-> u,
                  scholarshipId |-> reqs[s].sch, status |-> "draft",
                  applicationNumber |-> generateApplicationNumber(a),
                  verificationCode |-> Undefined,
                  verifiedVerificationCode |-> Undefined,
                  verifiedCertificateText |-> Undefined,
                  verifiedAt |-> Undefined,
                  personalStatement |-> "ps1",
                  encryptedData |-> JSONstringify(h.value)]]
    /\ reqs' = [reqs EXCEPT ![s] = Idle]
    /\ response' = Nil
    /\ UNCHANGED <<users, docs, disk, uploaded, draws, cin, cout, now, issued,
                   otpStore, timers, otpLog, passwordChecked>>


\* ------------------------------------------------------------------------
\* POST /documents/upload
\* ------------------------------------------------------------------------
\* What an upload persists, or a throw: encrypt the file for the user's
\* public key, hash the bytes, sign the hash with the user's private key.
\* The set of outcomes, for the random draw n.
UploadOutcomes(buffer, user, n) ==
    LET fileBase64 == encodeBase64(BinaryString(buffer))
        h == hybridEncrypt(fileBase64, user.publicKey, n)
        fileHash == createHashSHA512(buffer)
    IN  IF ~h.ok THEN {Thrown("Failed to upload document")}
        ELSE { IF ~pk.ok THEN Thrown("Failed to upload document")
               ELSE LET sig == createDigitalSignature(fileHash, pk.value)
                    IN  IF ~sig.ok THEN Thrown("Failed to upload document")
                        ELSE Returned(
                          [file |-> JSONstringify(
                              [data |-> h.value.encryptedData,
                               encryptedKey |-> h.value.encryptedKey,
                               iv |-> h.value.iv]),
                           documentHash |-> fileHash,
                           digitalSignature |-> sig.value])
               : pk \in RevealPrivateKey(user) }

\* The handler for a student u, an application a and file bytes f.  The
\* owner of an application has keys (creating it made them), so that
\* ensureUserKeys returns the user it was given.  fs.writeFile stores the
\* encrypted file under a fresh name, then Document.create stores the
\* record or throws (created = FALSE): the catch answers 500 and leaves
\* the file where it is.
Upload(u, a, d, f, created) ==
    /\ users[u].exists
    /\ apps[a].exists /\ apps[a].userId = u /\ apps[a].status = "draft"
    /\ ~docs[d].exists
    /\ disk[d] = Nil
    /\ LET e == ensureUserKeys(users[u], Draw(u))
       IN  /\ e.ok /\ ~e.save
           /\ \E o \in UploadOutcomes(Bytes(f), e.user, RecordDraw(d)) :
                IF ~o.ok
                THEN UNCHANGED <<docs, disk, uploaded>>
                ELSE IF ~created
                THEN /\ disk' = [disk EXCEPT ![d] = o.value.file]
                     /\ UNCHANGED <<docs, uploaded>>
                ELSE /\ disk' = [disk EXCEPT ![d] = o.value.file]
                     /\ docs' = [docs EXCEPT ![d] =
                           [exists |-> TRUE,
                            applicationId |-> a,
                            userId |-> u,
                            encryptedData |-> o.value.file,
                            documentHash |-> o.value.documentHash,
                            digitalSignature |-> o.value.digitalSignature]]
                     /\ uploaded' = [uploaded EXCEPT ![d] =
                           [buffer |-> Bytes(f),
                            file |-> o.value.file,
                            documentHash |-> o.value.documentHash,
                            digitalSignature |-> o.value.digitalSignature,
                            publicKey |-> e.user.publicKey]]
    /\ response' = Nil
    /\ UNCHANGED <<users, apps, reqs, draws, cin, cout, now, issued,
                   otpStore, timers, otpLog, passwordChecked>>

\* ------------------------------------------------------------------------
\* GET /documents/:id (download) and GET /documents/:id/verify
\* ------------------------------------------------------------------------
\* An integrity check that compares the hashes and skips the signature.
IntegrityValid_hashOnly(currentHash, doc, owner) ==
    currentHash = doc.documentHash

\* An integrity check that verifies the signature over the stored hash and
\* never compares it with the hash of the decrypted bytes.
IntegrityValid_signatureOnly(currentHash, doc, owner) ==
    verifyDigitalSignature(doc.documentHash, doc.digitalSignature, owner.publicKey)

\* currentHash === doc.documentHash
\*     && verifyDigitalSignature(currentHash, doc.digitalSignature, owner.publicKey)
IntegrityValid(currentHash, doc, owner) ==
    /\ currentHash = doc.documentHash
    /\ verifyDigitalSignature(currentHash, doc.digitalSignature, owner.publicKey)

\* The response of a read that threw (the handler's catch).
ReadError(kind, d, doc, content, owner) ==
    [kind |-> kind, doc |-> d, status |-> 500, outcome |-> "error",
     body |-> Nil, decrypted |-> Nil,
     signatureValid |-> FALSE, isTampered |-> FALSE,
     rec |-> doc, content |-> content, publicKey |-> owner.publicKey]

\* The response of a read that decrypted the file to decryptedBase64:
\* the download sends the bytes or the integrity failure, the verification
\* sends its report.
ReadAnswer(kind, d, doc, content, owner, decryptedBase64) ==
    LET fileBuffer == BufferFromBinary(decodeBase64(decryptedBase64))
        currentHash == createHashSHA512(fileBuffer)
        integrityValid == IntegrityValid(currentHash, doc, owner)
    IN  IF kind = "download"
        THEN [kind |-> kind, doc |-> d,
              status |-> IF integrityValid THEN 200 ELSE 500,
              outcome |-> IF integrityValid THEN "file" ELSE "integrity_failed",
              body |-> IF integrityValid THEN fileBuffer ELSE Nil,
              decrypted |-> fileBuffer,
              signatureValid |-> integrityValid, isTampered |-> ~integrityValid,
              rec |-> doc, content |-> content, publicKey |-> owner.publicKey]
        ELSE [kind |-> kind, doc |-> d, status |-> 200,
              outcome |-> "verification",
              body |-> Nil,
              decrypted |-> fileBuffer,
              signatureValid |-> integrityValid, isTampered |-> ~integrityValid,
              rec |-> doc, content |-> content, publicKey |-> owner.publicKey]

\* Every response a read can send, from the Document record, the file
\* content and the owner the handler holds.
ReadResponses(kind, d, doc, content, owner) ==
    LET enc == JSONparse(content)
        err == ReadError(kind, d, doc, content, owner)
    IN  IF ~enc.ok THEN {err}
        ELSE UNION {
               IF ~pk.ok THEN {err}
               ELSE { IF ~dec.ok THEN err
                      ELSE ReadAnswer(kind, d, doc, content, owner, dec.value)
                      : dec \in hybridDecrypt(enc.value.data,
                                              enc.value.encryptedKey,
                                              enc.value.iv, pk.value) }
               : pk \in RevealPrivateKey(owner) }

\* The handler, for an officer or admin.  The owner of a Document has keys
\* (the upload used them), so that ensureUserKeys returns the user it was
\* given.
ReadDocument(kind, d) ==
    /\ docs[d].exists
    /\ LET e == ensureUserKeys(users[docs[d].userId], <<"", 0>>)
       IN  /\ e.ok /\ ~e.save
           /\ \E r \in ReadResponses(kind, d, docs[d], disk[d], e.user) :
                 response' = r
    /\ UNCHANGED <<users, apps, docs, disk, reqs, uploaded, draws, cin, cout, now, issued,
                   otpStore, timers, otpLog, passwordChecked>>

\* ------------------------------------------------------------------------
\* The environment: someone with access to the uploads directory or to the
\* Document collection changes what is persisted.
\* ------------------------------------------------------------------------
AttackerDraw == <<"attacker", 0>>
CorruptedCiphertext == [type |-> "corrupted"]

\* The persisted ciphertext is damaged (a byte of its data is flipped), or
\* replaced by an encryption of other bytes f for the owner's public key
\* (which is not secret).
TamperFile(d, f, corrupt) ==
    /\ docs[d].exists
    /\ LET old == JSONparse(disk[d]).value
           sub == hybridEncrypt(encodeBase64(BinaryString(Bytes(f))),
                                users[docs[d].userId].publicKey, AttackerDraw)
           new == IF corrupt
                  THEN JSONstringify([old EXCEPT !.data = CorruptedCiphertext])
                  ELSE JSONstringify(
                         [data |-> sub.value.encryptedData,
                          encryptedKey |-> sub.value.encryptedKey,
                          iv |-> sub.value.iv])
       IN  /\ corrupt \/ (sub.ok /\ Bytes(f) # uploaded[d].buffer)
           /\ new # disk[d]
           /\ disk' = [disk EXCEPT ![d] = new]
    /\ response' = Nil
    /\ UNCHANGED <<users, apps, docs, reqs, uploaded, draws, cin, cout, now, issued,
                   otpStore, timers, otpLog, passwordChecked>>

\* The stored documentHash is replaced by the digest of bytes f.
TamperHash(d, f) ==
    /\ docs[d].exists
    /\ docs[d].documentHash # createHashSHA512(Bytes(f))
    /\ docs' = [docs EXCEPT ![d].documentHash = createHashSHA512(Bytes(f))]
    /\ response' = Nil
    /\ UNCHANGED <<users, apps, disk, reqs, uploaded, draws, cin, cout, now, issued,
                   otpStore, timers, otpLog, passwordChecked>>

\* The stored signature is replaced by one over the stored hash made with
\* a private key that is not the owner's.
TamperSignature(d) ==
    /\ docs[d].exists
    /\ LET forged == createDigitalSignature(docs[d].documentHash,
                                            PrivateKeyPem(AttackerDraw)).value
       IN  /\ docs[d].digitalSignature # forged
           /\ docs' = [docs EXCEPT ![d].digitalSignature = forged]
    /\ response' = Nil
    /\ UNCHANGED <<users, apps, disk, reqs, uploaded, draws, cin, cout, now, issued,
                   otpStore, timers, otpLog, passwordChecked>>

\* ------------------------------------------------------------------------
Next ==
    \/ \E u \in Users : Register(u)
    \/ \E u \in Users : AdminCreateUser(u)
    \/ \E u \in Users : GoogleCreate(u)
    \/ \E s \in Slots, u \in Users : GoogleStart(s, u)
    \/ \E s \in Slots : EnsureSave(s)
    \/ \E s \in Slots, u \in Users, sch \in Scholarships : CreateAppStart(s, u, sch)
    \/ \E s \in Slots : CreateAppFinish(s)
    \/ \E u \in Users, a \in AppIds, d \in DocIds, f \in FileContents,
          created \in BOOLEAN :
          Upload(u, a, d, f, created)
    \/ \E kind \in {"download", "verify"}, d \in DocIds : ReadDocument(kind, d)
    \/ \E d \in DocIds, f \in FileContents, corrupt \in BOOLEAN :
          TamperFile(d, f, corrupt)
    \/ \E d \in DocIds, f \in FileContents : TamperHash(d, f)
    \/ \E d \in DocIds : TamperSignature(d)

Spec == Init /\ [][Next]_vars


\* ------------------------------------------------------------------------
\* The utilities on their own: hybridEncrypt / hybridDecrypt and
\* createDigitalSignature / verifyDigitalSignature, called on inputs drawn
\* from small sets.  owner and reader are users, each with a key pair of
\* its own draw.
\* ------------------------------------------------------------------------
Payloads ==
    {EmptyString, encodeBase64(BinaryString(Bytes("hello-world"))), SensitiveData}

KeyPairOf(u) == generateRSAKeyPair(<<u, 1>>)

InitCrypto ==
    /\ users = [u \in Users |-> NoUser]
    /\ apps = [a \in AppIds |-> NoApp]
    /\ docs = [d \in DocIds |-> NoDoc]
    /\ disk = [d \in DocIds |-> Nil]
    /\ reqs = [s \in Slots |-> Idle]
    /\ response = Nil
    /\ uploaded = [d \in DocIds |-> Nil]
    /\ draws = [u \in Users |-> <<>>]
    /\ cin \in [payload : Payloads, owner : Users, reader : Users,
                bytes : {Bytes(f) : f \in FileContents},
                bytes2 : {Bytes(f) : f \in FileContents}]
    /\ cout = [stage |-> "start"]
    /\ now = 0
    /\ issued = [a \in AppIds |-> <<>>]
    /\ otpStore = Nil
    /\ timers = {}
    /\ otpLog = Nil
    /\ passwordChecked = Nil

\* hybridEncrypt(payload, owner's public key)
CallHybridEncrypt ==
    /\ cout.stage = "start"
    /\ cout' = [stage |-> "encrypted",
                enc |-> hybridEncrypt(cin.payload, KeyPairOf(cin.owner).publicKey,
                                      <<"call", 1>>)]
    /\ UNCHANGED <<users, apps, docs, disk, reqs, response, uploaded, draws, cin, now, issued,
                   otpStore, timers, otpLog, passwordChecked>>

\* hybridDecrypt(the triple, reader's private key)
CallHybridDecrypt ==
    /\ cout.stage = "encrypted"
    /\ cout.enc.ok
    /\ \E r \in hybridDecrypt(cout.enc.value.encryptedData,
                              cout.enc.value.encryptedKey,
                              cout.enc.value.iv,
                              KeyPairOf(cin.reader).privateKey) :
          cout' = [stage |-> "decrypted", result |-> r]
    /\ UNCHANGED <<users, apps, docs, disk, reqs, response, uploaded, draws, cin, now, issued,
                   otpStore, timers, otpLog, passwordChecked>>

\* D = createHashSHA512(bytes); S = createDigitalSignature(D, owner's private key)
CallSign ==
    /\ cout.stage = "start"
    /\ cout' = [stage |-> "signed",
                sig |-> createDigitalSignature(createHashSHA512(cin.bytes),
                                               KeyPairOf(cin.owner).privateKey)]
    /\ UNCHANGED <<users, apps, docs, disk, reqs, response, uploaded, draws, cin, now, issued,
                   otpStore, timers, otpLog, passwordChecked>>

\* verifyDigitalSignature(createHashSHA512(bytes2), S, reader's public key)
CallVerify ==
    /\ cout.stage = "signed"
    /\ cout.sig.ok
    /\ cout' = [stage |-> "verified",
                result |-> verifyDigitalSignature(createHashSHA512(cin.bytes2),
                                                  cout.sig.value,
                                                  KeyPairOf(cin.reader).publicKey),
                outcome |-> verifyDigitalSignatureCall(
                                createHashSHA512(cin.bytes2), cout.sig.value,
                                KeyPairOf(cin.reader).publicKey)]
    /\ UNCHANGED <<users, apps, docs, disk, reqs, response, uploaded, draws, cin, now, issued,
                   otpStore, timers, otpLog, passwordChecked>>

\* verifyDigitalSignature called with a structurally invalid public key, or
\* with a structurally invalid signature encoding.
CallVerifyMalformed ==
    /\ cout.stage = "signed"
    /\ cout.sig.ok
    /\ \E which \in {"key", "signature"} :
          cout' = [stage |-> "verifiedMalformed",
                   which |-> which,
                   outcome |-> verifyDigitalSignatureCall(
                       createHashSHA512(cin.bytes),
                       IF which = "signature" THEN MalformedSignature
                       ELSE cout.sig.value,
                       IF which = "key" THEN MalformedKey
                       ELSE KeyPairOf(cin.owner).publicKey)]
    /\ UNCHANGED <<users, apps, docs, disk, reqs, response, uploaded, draws, cin, now, issued,
                   otpStore, timers, otpLog, passwordChecked>>

\* decryptAES of what encryptAES(payload, key) returned, called with
\* another key, with another IV, or on a ciphertext that was corrupted.
CallDecryptAES ==
    /\ cout.stage = "start"
    /\ LET key == [type |-> "passphrase", id |-> <<cin.owner, 0>>]
           otherKey == [type |-> "passphrase", id |-> <<cin.owner, 1>>]
           e == encryptAES(cin.payload, key, <<"call", 1>>)
           otherIv == [type |-> "iv", id |-> <<"call", 2>>]
       IN  \E fault \in {"key", "iv", "data"} :
             \E r \in decryptAES(
                         IF fault = "data" THEN CorruptedCiphertext
                         ELSE e.encryptedData,
                         IF fault = "iv" THEN otherIv ELSE e.iv,
                         IF fault = "key" THEN otherKey ELSE key) :
                cout' = [stage |-> "aesDecrypted", fault |-> fault, result |-> r]
    /\ UNCHANGED <<users, apps, docs, disk, reqs, response, uploaded, draws, cin, now, issued,
                   otpStore, timers, otpLog, passwordChecked>>

\* hybridDecrypt of what hybridEncrypt returned, made to fail twice: once
\* in the RSA layer (another user's private key) and once in the AES layer
\* (the right private key, a corrupted payload).
CallHybridDecryptFailing ==
    /\ cout.stage = "encrypted"
    /\ cout.enc.ok
    /\ cin.reader # cin.owner
    /\ \E r1 \in hybridDecrypt(cout.enc.value.encryptedData,
                               cout.enc.value.encryptedKey,
                               cout.enc.value.iv,
                               KeyPairOf(cin.reader).privateKey),
          r2 \in hybridDecrypt(CorruptedCiphertext,
                               cout.enc.value.encryptedKey,
                               cout.enc.value.iv,
                               KeyPairOf(cin.owner).privateKey) :
          cout' = [stage |-> "failedTwice", rsaLayer |-> r1, aesLayer |-> r2]
    /\ UNCHANGED <<users, apps, docs, disk, reqs, response, uploaded, draws, cin, now, issued,
                   otpStore, timers, otpLog, passwordChecked>>

\* What createHashSHA512 is given: buffers, and a string.
HashInputs ==
    {Bytes(""), Bytes("hello-world"), Bytes("hello-worle"),
     [type |-> "string", s |-> "hello-world"]}

\* The bytes of an input: a string stands for its UTF-8 bytes.
InputBytes(data) == IF data.type = "bytes" THEN data ELSE Bytes(data.s)

\* createHashSHA512 on two inputs, after whichever calls came before.
CallHash ==
    /\ cout.stage \in {"start", "signed", "encrypted", "sequence"}
    /\ \E x, y \in HashInputs :
          cout' = [stage |-> "hashed", before |-> cout.stage,
                   x |-> x, y |-> y,
                   hx |-> createHashSHA512(x), hy |-> createHashSHA512(y)]
    /\ UNCHANGED <<users, apps, docs, disk, reqs, response, uploaded, draws, cin, now, issued,
                   otpStore, timers, otpLog, passwordChecked>>

\* The same two inputs again, in the other order.
CallHashAgain ==
    /\ cout.stage = "hashed"
    /\ cout' = [stage |-> "rehashed", before |-> cout.before,
                x |-> cout.x, y |-> cout.y, hx |-> cout.hx, hy |-> cout.hy,
                hy2 |-> createHashSHA512(cout.y),
                hx2 |-> createHashSHA512(cout.x)]
    /\ UNCHANGED <<users, apps, docs, disk, reqs, response, uploaded, draws, cin, now, issued,
                   otpStore, timers, otpLog, passwordChecked>>

\* One more hybridEncrypt call in a sequence of calls, for any payload and
\* any user's public key; CryptoJS.lib.WordArray.random draws anew in each.
MaxCalls == 2   \* hybridEncrypt calls in one sequence

CallHybridEncryptNext ==
    /\ cout.stage \in {"start", "sequence"}
    /\ LET calls == IF cout.stage = "start" THEN <<>> ELSE cout.calls
       IN  /\ Len(calls) < MaxCalls
           /\ \E payload \in Payloads, u \in Users :
                 cout' = [stage |-> "sequence",
                          calls |-> Append(calls,
                             [payload |-> payload, user |-> u,
                              enc |-> hybridEncrypt(
                                         payload, KeyPairOf(u).publicKey,
                                         <<"call", Len(calls) + 1>>)])]
    /\ UNCHANGED <<users, apps, docs, disk, reqs, response, uploaded, draws, cin, now, issued,
                   otpStore, timers, otpLog, passwordChecked>>

NextCrypto ==
    \/ CallHybridEncrypt
    \/ CallHybridDecrypt
    \/ CallSign
    \/ CallVerify
    \/ CallVerifyMalformed
    \/ CallDecryptAES
    \/ CallHybridDecryptFailing
    \/ CallHybridEncryptNext
    \/ CallHash
    \/ CallHashAgain

SpecCrypto == InitCrypto /\ [][NextCrypto]_vars

\* ------------------------------------------------------------------------
\* Verification codes: utils/encoding.js, PUT /applications/:id/status,
\* GET /applications/verify/:code and GET /applications/:id, on
\* applications that students have created and submitted.
\* ------------------------------------------------------------------------
MaxTime == 2     \* milliseconds on the clock
MaxIssued == 2   \* verification codes issued for one application

VerifyAppIds == {"a1", "a2"}
OwnerOf(a) == IF a = "a1" THEN "u1" ELSE "u2"

\* A verification code, as its parts between hyphens.
CodeString(parts) == [type |-> "code", parts |-> parts]

\* crypto.createHash('sha512').update(verificationData).digest('hex')
\*     .substring(0, 16), written as the text it is the digest of.
Sha512Hex16(verificationData) == ToString(verificationData.obj)

\* generateVerifiedCertificateData, with timestamp = Date.now().  The
\* payload reads applicationData.application_number, which the caller does
\* not pass: JSON.stringify leaves the undefined field out.
generateVerifiedCertificateData(applicationData, timestamp) ==
    LET payload == [applicationId |-> applicationData.id,
                    studentId |-> applicationData.student_id,
                    timestamp |-> timestamp]
        verificationData == JSONstringify(payload)
        verificationHash == Sha512Hex16(verificationData)
        verificationCode ==
            CodeString(<<"SVS", "VERIFIED">> \o applicationData.applicationNumber
                          \o <<verificationHash>>)
    IN  [verificationCode |-> verificationCode,
         certificateText |-> [type |-> "certificate",
                              applicationNumber |-> applicationData.applicationNumber,
                              studentId |-> applicationData.student_id,
                              verifiedAt |-> timestamp,
                              verificationCode |-> verificationCode]]

\* parseVerificationCode: split('-'), parts[0] must be 'SVS' and there
\* must be three parts or more; the application number is what lies
\* between the first and the last part.
parseVerificationCode(verificationCode) ==
    LET parts == verificationCode.parts
    IN  IF parts[1] # "SVS" \/ Len(parts) < 3
        THEN [isValid |-> FALSE, error |-> "Invalid verification code format"]
        ELSE [prefix |-> parts[1],
              applicationNumber |-> SubSeq(parts, 2, Len(parts) - 1),
              hash |-> parts[Len(parts)],
              isValid |-> TRUE]

\* The argument PUT /:id/status passes to generateVerifiedCertificateData.
CertificateInput(a) ==
    [id |-> a, applicationNumber |-> apps[a].applicationNumber,
     student_id |-> apps[a].userId]

InitVerify ==
    /\ users = [u \in Users |->
                  [exists |-> TRUE,
                   publicKey |-> NewKeyFields(<<u, 1>>).publicKey,
                   privateKey |-> NewKeyFields(<<u, 1>>).privateKey]]
    /\ apps = [a \in VerifyAppIds |->
                 [exists |-> TRUE, userId |-> OwnerOf(a),
                  scholarshipId |-> "s1", status |-> "submitted",
                  applicationNumber |-> generateApplicationNumber(a),
                  verificationCode |-> Undefined,
                  verifiedVerificationCode |-> Undefined,
                  verifiedCertificateText |-> Undefined,
                  verifiedAt |-> Undefined,
                  personalStatement |-> "ps1",
                  encryptedData |-> JSONstringify(
                      hybridEncrypt(SensitiveData,
                                    NewKeyFields(<<OwnerOf(a), 1>>).publicKey,
                                    RecordDraw(a)).value)]]
    /\ docs = [d \in DocIds |-> NoDoc]
    /\ disk = [d \in DocIds |-> Nil]
    /\ reqs = [s \in Slots |-> Idle]
    /\ response = Nil
    /\ uploaded = [d \in DocIds |-> Nil]
    /\ draws = [u \in Users |-> <<"User.create">>]
    /\ cin = Nil
    /\ cout = Nil
    /\ now = 0
    /\ issued = [a \in VerifyAppIds |-> <<>>]
    /\ otpStore = Nil
    /\ timers = {}
    /\ otpLog = Nil
    /\ passwordChecked = Nil

AllowedStatuses == {"under_review", "verified", "approved", "rejected"}

\* The statuses an officer asks for: the allowed ones and one that is not.
StatusInputs == AllowedStatuses \cup {"paid"}

\* A handler that issues a certificate at every approval.
IssuesCode_everyApproval(application, status) ==
    status = "verified" \/ status = "approved"

\* status === 'verified' || (status === 'approved' && !application.verifiedVerificationCode)
IssuesCode(application, status) ==
    \/ status = "verified"
    \/ status = "approved" /\ ~Truthy(application.verifiedVerificationCode)

\* An update that keeps the code an application already has.
ApplyStatus_keepFirstCode(application, status, cert, date) ==
    IF IssuesCode(application, status) /\ ~Truthy(application.verifiedVerificationCode)
    THEN [application EXCEPT
            !.verifiedVerificationCode = cert.verificationCode,
            !.verifiedCertificateText = cert.certificateText,
            !.verifiedAt = date,
            !.status = status]
    ELSE [application EXCEPT !.status = status]

\* The assignments the handler makes to the application it found: the
\* code, the certificate text and verifiedAt when a code is issued, and
\* the status.
ApplyStatus(application, status, cert, date) ==
    IF IssuesCode(application, status)
    THEN [application EXCEPT
            !.verifiedVerificationCode = cert.verificationCode,
            !.verifiedCertificateText = cert.certificateText,
            !.verifiedAt = date,
            !.status = status]
    ELSE [application EXCEPT !.status = status]

\* What the handlers on one application answer.
Answer(kind, a, requested, status) ==
    [kind |-> kind, application |-> a, requested |-> requested,
     status |-> status]

\* PUT /:id/status: a status outside the allowed list is answered 400 and
\* an unknown application 404; otherwise Application.findById, the code
\* generated dt milliseconds after the previous one when the status asks
\* for one, and application.save().  Status updates are taken one after
\* the other.
UpdateStatus(a, status, dt) ==
    /\ IF status \notin AllowedStatuses
       THEN /\ dt = 0
            /\ response' = Answer("status", a, status, 400)
            /\ UNCHANGED <<apps, issued, now>>
       ELSE IF ~apps[a].exists
       THEN /\ dt = 0
            /\ response' = Answer("status", a, status, 404)
            /\ UNCHANGED <<apps, issued, now>>
       ELSE LET issues == IssuesCode(apps[a], status)
                ts == IF issues THEN now + dt ELSE now
                cert == generateVerifiedCertificateData(CertificateInput(a), ts)
            IN  /\ ts <= MaxTime
                /\ issues \/ dt = 0
                /\ now' = ts
                /\ issues => Len(issued[a]) < MaxIssued
                /\ apps' = [apps EXCEPT ![a] = ApplyStatus(@, status, cert, ts)]
                /\ issued' = IF issues
                             THEN [issued EXCEPT ![a] =
                                     Append(@, cert.verificationCode)]
                             ELSE issued
                /\ response' = Answer("status", a, status, 200)
    /\ UNCHANGED <<users, docs, disk, reqs, uploaded, draws, cin, cout,
                   otpStore, timers, otpLog, passwordChecked>>

\* POST /:id/submit by student u: Application.findOne by id and owner, 404
\* when there is none; then the status becomes 'submitted' and the
\* application is saved.
Submit(u, a) ==
    /\ IF ~(apps[a].exists /\ apps[a].userId = u)
       THEN /\ response' = Answer("submit", a, "submitted", 404)
            /\ UNCHANGED apps
       ELSE /\ apps' = [apps EXCEPT ![a].status = "submitted"]
            /\ response' = Answer("submit", a, "submitted", 200)
    /\ UNCHANGED <<users, docs, disk, reqs, uploaded, draws, cin, cout, now,
                   issued, otpStore, timers, otpLog, passwordChecked>>

\* The codes a visitor looks up: the codes issued so far, and a string of
\* the same shape that never is.
NeverIssued ==
    CodeString(<<"SVS", "VERIFIED", "APP2026", "a1", "0000000000000000">>)

LookupCodes ==
    UNION {{issued[a][i] : i \in DOMAIN issued[a]} : a \in VerifyAppIds}
       \cup {NeverIssued}

\* GET /verify/:code: Application.findOne({ $or: [{ verificationCode: code },
\* { verifiedVerificationCode: code }] }), 404 when there is none.
VerifyByCode(code) ==
    /\ LET matches == {a \in DOMAIN apps :
                          /\ apps[a].exists
                          /\ \/ apps[a].verificationCode = code
                             \/ apps[a].verifiedVerificationCode = code}
       IN  response' \in
             IF matches = {}
             THEN {[kind |-> "lookup", code |-> code, status |-> 404,
                    application |-> "none"]}
             ELSE {[kind |-> "lookup", code |-> code, status |-> 200,
                    application |-> a] : a \in matches}
    /\ UNCHANGED <<users, apps, docs, disk, reqs, uploaded, draws, cin, cout,
                   now, issued, otpStore, timers, otpLog, passwordChecked>>

\* GET /:id: what the student is shown of the application.
GetApplication(a) ==
    /\ apps[a].exists
    /\ response' = [kind |-> "application", application |-> a, status |-> 200,
                    application_number |-> apps[a].applicationNumber,
                    verified_verification_code |->
                        apps[a].verifiedVerificationCode]
    /\ UNCHANGED <<users, apps, docs, disk, reqs, uploaded, draws, cin, cout,
                   now, issued, otpStore, timers, otpLog, passwordChecked>>

NextVerify ==
    \/ \E a \in VerifyAppIds, status \in StatusInputs, dt \in {0, 1} :
          UpdateStatus(a, status, dt)
    \/ \E a \in VerifyAppIds : Submit(OwnerOf(a), a)
    \/ \E code \in LookupCodes : VerifyByCode(code)
    \/ \E a \in VerifyAppIds : GetApplication(a)

SpecVerify == InitVerify /\ [][NextVerify]_vars

\* ------------------------------------------------------------------------
\* Deleting documents and users: DELETE /documents/:id, DELETE /users/me
\* and DELETE /users/:id, on a student with a draft application.
\* ------------------------------------------------------------------------
LifeDocIds == {"d1", "d2", "d3"}

InitLife ==
    /\ users = [u \in Users |->
                  [exists |-> TRUE,
                   publicKey |-> NewKeyFields(<<u, 1>>).publicKey,
                   privateKey |-> NewKeyFields(<<u, 1>>).privateKey]]
    /\ apps = [a \in AppIds |->
                 [exists |-> TRUE, userId |-> "u1", scholarshipId |-> "s1",
                  status |-> "draft",
                  applicationNumber |-> generateApplicationNumber(a),
                  verificationCode |-> Undefined,
                  verifiedVerificationCode |-> Undefined,
                  verifiedCertificateText |-> Undefined,
                  verifiedAt |-> Undefined,
                  personalStatement |-> "ps1",
                  encryptedData |-> JSONstringify(
                      hybridEncrypt(SensitiveData,
                                    NewKeyFields(<<"u1", 1>>).publicKey,
                                    RecordDraw(a)).value)]]
    /\ docs = [d \in LifeDocIds |-> NoDoc]
    /\ disk = [d \in LifeDocIds |-> Nil]
    /\ reqs = [s \in Slots |-> Idle]
    /\ response = Nil
    /\ uploaded = [d \in LifeDocIds |-> Nil]
    /\ draws = [u \in Users |-> <<"User.create">>]
    /\ cin = Nil
    /\ cout = Nil
    /\ now = 0
    /\ issued = [a \in AppIds |-> <<>>]
    /\ otpStore = Nil
    /\ timers = {}
    /\ otpLog = Nil
    /\ passwordChecked = Nil

\* DELETE /documents/:id by student u: 403 unless the Document is u's own,
\* then Document.deleteOne.  The file at doc.filePath is not touched.
DeleteDocument(u, d) ==
    /\ users[u].exists
    /\ IF ~docs[d].exists \/ docs[d].userId # u
       THEN /\ response' = [kind |-> "delete", doc |-> d, status |-> 403]
            /\ UNCHANGED docs
       ELSE /\ response' = [kind |-> "delete", doc |-> d, status |-> 200]
            /\ docs' = [docs EXCEPT ![d] = NoDoc]
    /\ UNCHANGED <<users, apps, disk, reqs, uploaded, draws, cin, cout, now,
                   issued, otpStore, timers, otpLog, passwordChecked>>

\* DELETE /users/me and DELETE /users/:id: Application.deleteMany and
\* Document.deleteMany for the user, then User.deleteOne.
DeleteUser(u) ==
    /\ users[u].exists
    /\ apps' = [a \in DOMAIN apps |->
                  IF apps[a].exists /\ apps[a].userId = u
                  THEN NoApp ELSE apps[a]]
    /\ docs' = [d \in DOMAIN docs |->
                  IF docs[d].exists /\ docs[d].userId = u
                  THEN NoDoc ELSE docs[d]]
    /\ users' = [users EXCEPT ![u] = NoUser]
    /\ response' = [kind |-> "deleteUser", user |-> u, status |-> 200]
    /\ UNCHANGED <<disk, reqs, uploaded, draws, cin, cout, now, issued,
                   otpStore, timers, otpLog, passwordChecked>>

NextLife ==
    \/ \E u \in Users, a \in AppIds, d \in LifeDocIds, f \in FileContents,
          created \in BOOLEAN :
          Upload(u, a, d, f, created)
    \/ \E u \in Users, d \in LifeDocIds : DeleteDocument(u, d)
    \/ \E u \in Users : DeleteUser(u)

SpecLife == InitLife /\ [][NextLife]_vars

\* ------------------------------------------------------------------------
\* Authentication (routes/auth.js): the one-time codes of login, of
\* resending and of password reset, for an account that exists.  An account
\* is named by its e-mail address.  The clock ticks every 2.5 minutes.
\* ------------------------------------------------------------------------
OtpLifetime == 2   \* 5 * 60 * 1000 ms, in ticks
MaxAttempts == 3   \* stored.attempts >= 3
MaxStores == 2     \* codes stored in all

\* The clock runs until a code stored at the start has expired.
MaxNow == OtpLifetime + 1

OtpCodes == {"111111", "222222"}   \* the codes a request presents
Emails == {"u1"}                   \* the account whose codes are followed

\* The keys of otpStore: email, and `reset_${email}`.
EmailKey(email) == <<"", email>>
ResetKey(email) == <<"reset_", email>>
OtpKeys == {EmailKey(e) : e \in Emails} \cup {ResetKey(e) : e \in Emails}

Absent == [type |-> "absent"]

\* crypto.createHash('sha512').update(otp).digest('hex')
HashOtp(otp) == [type |-> "sha512hex", of |-> otp]

\* What the history keeps for a key: how many codes were stored under it,
\* and of the latest when it was stored and how often it was refused for a
\* wrong code and accepted since.
NoLog == [n |-> 0, at |-> 0, failed |-> 0, accepted |-> 0]

InitAuth ==
    /\ users = [u \in Users |->
                  [exists |-> TRUE, isVerified |-> TRUE,
                   publicKey |-> NewKeyFields(<<u, 1>>).publicKey,
                   privateKey |-> NewKeyFields(<<u, 1>>).privateKey]]
    /\ apps = [a \in AppIds |-> NoApp]
    /\ docs = [d \in DocIds |-> NoDoc]
    /\ disk = [d \in DocIds |-> Nil]
    /\ reqs = [s \in Slots |-> Idle]
    /\ response = Nil
    /\ uploaded = [d \in DocIds |-> Nil]
    /\ draws = [u \in Users |-> <<"User.create">>]
    /\ cin = Nil
    /\ cout = Nil
    /\ now = 0
    /\ issued = [a \in AppIds |-> <<>>]
    /\ otpStore = [k \in OtpKeys |-> Absent]
    /\ timers = {}
    /\ otpLog = [k \in OtpKeys |-> NoLog]
    /\ passwordChecked = [e \in Emails |-> FALSE]

\* The codes stored so far.
StoresSoFar == otpLog[EmailKey("u1")].n + otpLog[ResetKey("u1")].n

\* generateOTP: six random digits; the code of the k-th call is named by k.
generateOTP(k) == IF k % 2 = 1 THEN "111111" ELSE "222222"

\* The history when one more code is stored under key.
Logged(key) ==
    [otpLog EXCEPT ![key] =
        [n |-> @.n + 1, at |-> now, failed |-> 0, accepted |-> 0]]

\* The history after an answer on the n-th code of key: a refusal of a
\* wrong code and an acceptance are counted while that code is the latest.
LogAnswer(key, n, valid, wrong) ==
    IF n # otpLog[key].n THEN otpLog
    ELSE IF valid THEN [otpLog EXCEPT ![key].accepted = @ + 1]
    ELSE IF wrong THEN [otpLog EXCEPT ![key].failed = @ + 1]
    ELSE otpLog

\* storeOTP(email, otp, purpose) at time t: the entry replaces what the key
\* held (the timer it sets is in SendOtp).  n numbers the codes of the key.
storeOTP(store, email, otp, purpose, t, n) ==
    [store EXCEPT ![EmailKey(email)] =
        [otp |-> HashOtp(otp), purpose |-> purpose,
         expiresAt |-> t + OtpLifetime, attempts |-> 0, n |-> n]]

\* A verifyOTP without the limit on attempts.
verifyOTP_noLimit(store, email, otp, t) ==
    LET key == EmailKey(email)
        stored == store[key]
    IN  IF stored = Absent
        THEN [valid |-> FALSE, message |-> "OTP expired or not found",
              store |-> store]
        ELSE IF t > stored.expiresAt
        THEN [valid |-> FALSE, message |-> "OTP expired",
              store |-> [store EXCEPT ![key] = Absent]]
        ELSE IF HashOtp(otp) # stored.otp
        THEN [valid |-> FALSE, message |-> "Invalid OTP",
              store |-> [store EXCEPT ![key].attempts = @ + 1]]
        ELSE [valid |-> TRUE, message |-> "",
              store |-> [store EXCEPT ![key] = Absent]]

\* verifyOTP(email, otp) at time t: the answer and the store it leaves.
verifyOTP(store, email, otp, t) ==
    LET key == EmailKey(email)
        stored == store[key]
    IN  IF stored = Absent
        THEN [valid |-> FALSE, message |-> "OTP expired or not found",
              store |-> store]
        ELSE IF t > stored.expiresAt
        THEN [valid |-> FALSE, message |-> "OTP expired",
              store |-> [store EXCEPT ![key] = Absent]]
        ELSE IF stored.attempts >= MaxAttempts
        THEN [valid |-> FALSE, message |-> "Too many attempts",
              store |-> [store EXCEPT ![key] = Absent]]
        ELSE IF HashOtp(otp) # stored.otp
        THEN [valid |-> FALSE, message |-> "Invalid OTP",
              store |-> [store EXCEPT ![key].attempts = @ + 1]]
        ELSE [valid |-> TRUE, message |-> "",
              store |-> [store EXCEPT ![key] = Absent]]

\* The part of a handler that stores and mails a code for an e-mail; the
\* timer deletes whatever the key holds when it fires.
SendOtp(email, purpose) ==
    /\ StoresSoFar < MaxStores
    /\ otpStore' = storeOTP(otpStore, email, generateOTP(StoresSoFar + 1),
                            purpose, now, otpLog[EmailKey(email)].n + 1)
    /\ timers' = timers \cup
                   {[key |-> EmailKey(email), at |-> now + OtpLifetime]}
    /\ otpLog' = Logged(EmailKey(email))

\* POST /auth/login: 401 without the user, 403 when the e-mail is not
\* verified, 401 when bcrypt.compare fails; otherwise a code is stored and
\* mailed.  passwordOk tells whether the password sent is the user's.
\* Only the answers to a code are kept in response.
Login(email, passwordOk) ==
    /\ IF ~users[email].exists \/ ~users[email].isVerified \/ ~passwordOk
       THEN UNCHANGED <<otpStore, timers, otpLog, passwordChecked>>
       ELSE /\ SendOtp(email, "login")
            /\ passwordChecked' = [passwordChecked EXCEPT ![email] = TRUE]
    /\ response' = Nil
    /\ UNCHANGED <<users, apps, docs, disk, reqs, uploaded, draws, cin, cout,
                   now, issued>>

\* POST /auth/resend-otp: a new code for the e-mail of any user.
ResendOtp(email) ==
    /\ users[email].exists
    /\ SendOtp(email,
               IF users[email].isVerified THEN "login" ELSE "registration")
    /\ response' = Nil
    /\ UNCHANGED <<users, apps, docs, disk, reqs, uploaded, draws, cin, cout,
                   now, issued, passwordChecked>>

\* POST /auth/verify-mfa: verifyOTP(tempToken, otp), then the user is
\* looked up and the access token signed.  The response notes whether the
\* code presented was the one stored, and whether a password check came
\* before.
VerifyMfa(email, otp) ==
    /\ LET v == verifyOTP(otpStore, email, otp, now)
           stored == otpStore[EmailKey(email)]
           token == v.valid /\ users[email].exists
       IN  /\ otpStore' = v.store
           /\ otpLog' = IF stored = Absent THEN otpLog
                        ELSE LogAnswer(EmailKey(email), stored.n, v.valid,
                                       v.message = "Invalid OTP")
           /\ response' =
                 [kind |-> "verify-mfa", email |-> email,
                  valid |-> v.valid, message |-> v.message, token |-> token,
                  correct |-> stored # Absent /\ stored.otp = HashOtp(otp),
                  afterPassword |-> passwordChecked[email]]
           /\ passwordChecked' =
                 IF token THEN [passwordChecked EXCEPT ![email] = FALSE]
                 ELSE passwordChecked
    /\ UNCHANGED <<users, apps, docs, disk, reqs, uploaded, draws, cin, cout,
                   now, issued, timers>>

\* POST /auth/forgot-password: the reset code is stored as it is, with no
\* timer.
ForgotPassword(email) ==
    /\ users[email].exists
    /\ StoresSoFar < MaxStores
    /\ otpStore' = [otpStore EXCEPT ![ResetKey(email)] =
                      [otp |-> generateOTP(StoresSoFar + 1),
                       expiresAt |-> now + OtpLifetime,
                       attempts |-> 0, n |-> otpLog[ResetKey(email)].n + 1]]
    /\ otpLog' = Logged(ResetKey(email))
    /\ response' = Nil
    /\ UNCHANGED <<users, apps, docs, disk, reqs, uploaded, draws, cin, cout,
                   now, issued, timers, passwordChecked>>

\* POST /auth/reset-password up to `await User.findOne`: the checks on the
\* stored code.  A request whose code matches goes on to save the password.
ResetPasswordCheck(s, email, otp) ==
    /\ reqs[s] = Idle
    /\ LET key == ResetKey(email)
           storedData == otpStore[key]
           answer(message) ==
               [kind |-> "reset-password", email |-> email,
                valid |-> FALSE, message |-> message,
                correct |-> storedData # Absent /\ storedData.otp = otp]
       IN  IF storedData = Absent
           THEN /\ response' = answer("No reset request found. Please request a new code.")
                /\ UNCHANGED <<otpStore, otpLog, reqs>>
           ELSE IF storedData.attempts >= MaxAttempts
           THEN /\ response' = answer("Too many attempts. Please request a new code.")
                /\ otpStore' = [otpStore EXCEPT ![key] = Absent]
                /\ UNCHANGED <<otpLog, reqs>>
           ELSE IF now > storedData.expiresAt
           THEN /\ response' = answer("Code has expired. Please request a new code.")
                /\ otpStore' = [otpStore EXCEPT ![key] = Absent]
                /\ UNCHANGED <<otpLog, reqs>>
           ELSE IF storedData.otp # otp
           THEN /\ response' = answer("Invalid code. Please try again.")
                /\ otpStore' = [otpStore EXCEPT ![key].attempts = @ + 1]
                /\ otpLog' = LogAnswer(key, storedData.n, FALSE, TRUE)
                /\ UNCHANGED reqs
           ELSE /\ reqs' = [reqs EXCEPT ![s] =
                      [kind |-> "reset-password", pc |-> "save",
                       email |-> email, n |-> storedData.n]]
                /\ response' = Nil
                /\ UNCHANGED <<otpStore, otpLog>>
    /\ UNCHANGED <<users, apps, docs, disk, uploaded, draws, cin, cout,
                   now, issued, timers, passwordChecked>>

\* The rest of POST /auth/reset-password: the user is found, the password
\* hashed and saved, then otpStore.delete(`reset_${email}`).
ResetPasswordSave(s) ==
    /\ reqs[s].kind = "reset-password" /\ reqs[s].pc = "save"
    /\ LET email == reqs[s].email
           key == ResetKey(email)
       IN  /\ otpStore' = [otpStore EXCEPT ![key] = Absent]
           /\ otpLog' = LogAnswer(key, reqs[s].n, TRUE, FALSE)
           /\ response' =
                 [kind |-> "reset-password", email |-> email, valid |-> TRUE,
                  message |-> "Password reset successful.",
                  correct |-> TRUE]
    /\ reqs' = [reqs EXCEPT ![s] = Idle]
    /\ UNCHANGED <<users, apps, docs, disk, uploaded, draws, cin, cout,
                   now, issued, timers, passwordChecked>>

\* A timer of storeOTP fires: otpStore.delete(email).
TimerFires(timer) ==
    /\ timer \in timers
    /\ now >= timer.at
    /\ timers' = timers \ {timer}
    /\ otpStore' = [otpStore EXCEPT ![timer.key] = Absent]
    /\ response' = Nil
    /\ UNCHANGED <<users, apps, docs, disk, reqs, uploaded, draws, cin, cout,
                   now, issued, otpLog, passwordChecked>>

\* Time passes; a timer that is due fires before the next tick.
Tick ==
    /\ now < MaxNow
    /\ \A timer \in timers : now < timer.at
    /\ now' = now + 1
    /\ response' = Nil
    /\ UNCHANGED <<users, apps, docs, disk, reqs, uploaded, draws, cin, cout,
                   issued, otpStore, timers, otpLog, passwordChecked>>

NextAuth ==
    \/ \E email \in Emails, passwordOk \in BOOLEAN : Login(email, passwordOk)
    \/ \E email \in Emails : ResendOtp(email)
    \/ \E email \in Emails, otp \in OtpCodes : VerifyMfa(email, otp)
    \/ \E email \in Emails : ForgotPassword(email)
    \/ \E s \in Slots, email \in Emails, otp \in OtpCodes :
          ResetPasswordCheck(s, email, otp)
    \/ \E s \in Slots : ResetPasswordSave(s)
    \/ \E timer \in timers : TimerFires(timer)
    \/ Tick

SpecAuth == InitAuth /\ [][NextAuth]_vars

\* ------------------------------------------------------------------------
\* The student's requests on applications: POST /applications,
\* PUT /applications/:id, POST /applications/:id/submit, POST
\* /documents/upload and DELETE /documents/:id, next to the officer's
\* PUT /applications/:id/status.
\* ------------------------------------------------------------------------
ApplyAppIds == {"a1", "a2"}
ApplyScholarships == {"s1", "s2"}
Applicant == "u1"                \* the student who sends the requests

InitApply ==
    /\ users = [u \in Users |->
                  [exists |-> TRUE,
                   publicKey |-> NewKeyFields(<<u, 1>>).publicKey,
                   privateKey |-> NewKeyFields(<<u, 1>>).privateKey]]
    /\ apps = [a \in ApplyAppIds |-> NoApp]
    /\ docs = [d \in DocIds |-> NoDoc]
    /\ disk = [d \in DocIds |-> Nil]
    /\ reqs = [s \in Slots |-> Idle]
    /\ response = Nil
    /\ uploaded = [d \in DocIds |-> Nil]
    /\ draws = [u \in Users |-> <<"User.create">>]
    /\ cin = Nil
    /\ cout = Nil
    /\ now = 0
    /\ issued = [a \in ApplyAppIds |-> <<>>]
    /\ otpStore = Nil
    /\ timers = {}
    /\ otpLog = Nil
    /\ passwordChecked = Nil

\* PUT /:id by student u: Application.findOne by id and owner, 404 when
\* there is none and 400 unless its status is 'draft'; then the personal
\* statement of the request and, when the request carries sensitive_data,
\* their encryption for the user's public key, and application.save().
UpdateApplication(u, a, statement, sensitive) ==
    /\ users[u].exists
    /\ IF ~(apps[a].exists /\ apps[a].userId = u)
       THEN /\ response' = Answer("update", a, statement, 404)
            /\ UNCHANGED apps
       ELSE IF apps[a].status # "draft"
       THEN /\ response' = Answer("update", a, statement, 400)
            /\ UNCHANGED apps
       ELSE LET e == ensureUserKeys(users[u], Draw(u))
                h == hybridEncrypt(SensitiveData, e.user.publicKey,
                                   <<a, 1>>)
            IN  /\ e.ok /\ ~e.save
                /\ h.ok
                /\ apps' = [apps EXCEPT
                              ![a].personalStatement = statement,
                              ![a].encryptedData =
                                  IF sensitive THEN JSONstringify(h.value)
                                  ELSE @]
                /\ response' = Answer("update", a, statement, 200)
    /\ UNCHANGED <<users, docs, disk, reqs, uploaded, draws, cin, cout, now,
                   issued, otpStore, timers, otpLog, passwordChecked>>

NextApply ==
    \/ \E s \in Slots, sch \in ApplyScholarships :
          CreateAppStart(s, Applicant, sch)
    \/ \E s \in Slots : CreateAppFinish(s)
    \/ \E a \in ApplyAppIds, sensitive \in BOOLEAN :
          UpdateApplication(Applicant, a, "ps2", sensitive)
    \/ \E a \in ApplyAppIds : Submit(Applicant, a)
    \/ \E a \in ApplyAppIds, d \in DocIds :
          Upload(Applicant, a, d, "hello-world", TRUE)
    \/ \E d \in DocIds : DeleteDocument(Applicant, d)
    \/ \E a \in ApplyAppIds, status \in {"under_review", "rejected", "paid"} :
          UpdateStatus(a, status, 0)

SpecApply == InitApply /\ [][NextApply]_vars

\* ========================================================================
\* Properties
\* ========================================================================
\* Every key pair of user u was generated by ensureUserKeys.
OnlyEnsureUserKeys(d) == \A i \in DOMAIN d : d[i] = "ensureUserKeys"

\* No request holds a key pair for user u that it has yet to save: the pair
\* stored for u is the one that ends up persisted.
NoSavePending(u) ==
    \A s \in Slots : ~(reqs[s].kind # "idle" /\ reqs[s].uid = u /\ reqs[s].pc = "ensure")

\* What a read response says of the document it read.
DigestMatches(r) == createHashSHA512(r.decrypted) = r.rec.documentHash

StoredSignatureValid(r) ==
    verifyDigitalSignature(r.rec.documentHash, r.rec.digitalSignature, r.publicKey)

ReportsTampered(r) ==
    IF r.kind = "download" THEN r.outcome = "integrity_failed" ELSE r.isTampered

\* The read found the file, the hash and the signature as the upload wrote them.
Unmodified(r) ==
    /\ r.content = uploaded[r.doc].file
    /\ r.rec.documentHash = uploaded[r.doc].documentHash
    /\ r.rec.digitalSignature = uploaded[r.doc].digitalSignature

\* C1: once a publicKey/privateKey pair has been saved for a user, the
\* save of another in-flight ensureUserKeys caller does not replace it with
\* a second pair: one key pair is ever persisted per user.
C1_OnePersistedKeyPair ==
    [][\A u \in Users :
         (HasKeys(users[u]) /\ OnlyEnsureUserKeys(draws'[u])) =>
            /\ users'[u].publicKey = users[u].publicKey
            /\ users'[u].privateKey = users[u].privateKey]_vars

\* C2: when first-time ensureUserKeys calls for a user have raced and
\* none has a save left to make, every caller has encrypted (the
\* application's sensitive data) and signed and encrypted (the uploaded
\* document) with the key pair that is persisted for the user.
C2_CallersUseThePersistedPair ==
    \A u \in Users :
       (users[u].exists /\ OnlyEnsureUserKeys(draws[u]) /\ NoSavePending(u)) =>
          /\ \A a \in AppIds :
                (apps[a].exists /\ apps[a].userId = u) =>
                   PublicKeyPem(JSONparse(apps[a].encryptedData).value.encryptedKey.key)
                      = users[u].publicKey
          /\ \A d \in DocIds :
                (docs[d].exists /\ docs[d].userId = u) =>
                   uploaded[d].publicKey = users[u].publicKey

\* C3: for every user, the stored publicKey and privateKey are both absent,
\* or both present and such that the stored private key, decrypted with the
\* process-wide secret, decrypts what the stored public key encrypts.
C3_StoredKeyPairConsistent ==
    \A u \in Users :
       users[u].exists =>
          \/ users[u].publicKey = Undefined /\ users[u].privateKey = Undefined
          \/ /\ HasKeys(users[u])
             /\ \A pk \in RevealPrivateKey(users[u]) :
                  /\ pk.ok
                  /\ \A P \in Payloads :
                       LET h == hybridEncrypt(P, users[u].publicKey, <<"check", 0>>)
                       IN  /\ h.ok
                           /\ hybridDecrypt(h.value.encryptedData,
                                            h.value.encryptedKey,
                                            h.value.iv, pk.value) = {Returned(P)}

\* A user whose key pair was saved by ensureUserKeys twice (two first-time
\* callers raced) holds the second pair.
C3_Witness ==
    \E u \in Users :
       /\ Len(draws[u]) = 2
       /\ users[u].publicKey = PublicKeyPem(<<u, 2>>)
       /\ HasKeys(users[u])

\* C4: hybridDecrypt with the owner's private key, applied to what
\* hybridEncrypt(P, owner's public key) returned, returns exactly P, the
\* empty payload included.
C4_HybridRoundTrip ==
    (cout.stage = "decrypted" /\ cin.reader = cin.owner) =>
        cout.result = Returned(cin.payload)

\* The empty payload has made the round trip.
C4_Witness ==
    /\ cout.stage = "decrypted"
    /\ cin.reader = cin.owner
    /\ cin.payload = EmptyString
    /\ cout.result = Returned(EmptyString)

\* C5: hybridDecrypt with the private key of another user than the one
\* whose public key encrypted fails with the hybrid-decryption error and
\* returns no value.
C5_KeyIsolation ==
    (cout.stage = "decrypted" /\ cin.reader # cin.owner) =>
        /\ ~cout.result.ok
        /\ cout.result.error = "Hybrid decryption failed"

\* Another user's private key was tried and the call threw.
C5_Witness ==
    /\ cout.stage = "decrypted"
    /\ cin.reader # cin.owner
    /\ ~cout.result.ok

\* C6: a read that decrypted the file reports tampered exactly when not
\* both the digest of the decrypted bytes equals the stored hash and the
\* stored signature verifies under the owner's public key.
C6_TamperedIffNotBoth ==
    (response # Nil /\ response.outcome # "error") =>
        ReportsTampered(response)
           = ~(DigestMatches(response) /\ StoredSignatureValid(response))

\* A verification found a matching digest and an invalid signature, and
\* reported tampered.
C6_Witness ==
    /\ response # Nil
    /\ response.kind = "verify"
    /\ response.outcome = "verification"
    /\ DigestMatches(response)
    /\ ~StoredSignatureValid(response)
    /\ response.isTampered

\* C7: the signature S of D = createHashSHA512(B) by a user verifies over
\* D under that user's public key, and does not verify over the digest of
\* other bytes nor under another user's public key.
C7_SignatureTamperDetection ==
    cout.stage = "verified" =>
        cout.result = (cin.bytes2 = cin.bytes /\ cin.reader = cin.owner)

\* The signature was checked against the digest of other bytes and refused.
C7_Witness ==
    /\ cout.stage = "verified"
    /\ cin.bytes2 # cin.bytes
    /\ cin.reader = cin.owner
    /\ cout.result = FALSE

\* C8: a read that finds the file, the hash and the signature of a document
\* as the upload wrote them decrypts to the uploaded bytes and reports the
\* document as not tampered.
C8_CleanCycle ==
    (response # Nil /\ Unmodified(response)) =>
        /\ response.outcome \in {"file", "verification"}
        /\ response.decrypted = uploaded[response.doc].buffer
        /\ ~ReportsTampered(response)

\* C9: a read of a document whose persisted ciphertext is not the one the
\* upload wrote fails or reports the document as tampered.
C9_ChangedNeverIntact ==
    (response # Nil /\ response.content # uploaded[response.doc].file) =>
        \/ response.outcome = "error"
        \/ ReportsTampered(response)

\* C10: a download sends the decrypted bytes only when their hash equals
\* the stored hash and the stored signature verifies under the owner's
\* public key; otherwise it answers 500 and sends no file content.
C10_DownloadNeverIgnoresFailure ==
    (response # Nil /\ response.kind = "download") =>
        IF /\ response.outcome # "error"
           /\ DigestMatches(response)
           /\ StoredSignatureValid(response)
        THEN response.outcome = "file" /\ response.body = response.decrypted
        ELSE /\ response.outcome \in {"integrity_failed", "error"}
             /\ response.status = 500
             /\ response.body = Nil

\* A download decrypted bytes whose hash is not the stored one and answered
\* with the integrity failure.
C10_Witness ==
    /\ response # Nil
    /\ response.kind = "download"
    /\ response.outcome = "integrity_failed"
    /\ ~DigestMatches(response)
    /\ response.body = Nil

\* C11: a call of verifyDigitalSignature with a well-formed signature that
\* does not match the data or the key returns (false) and does not throw,
\* and a call with a structurally invalid public key or signature encoding
\* throws instead of returning.
C11_MalformedInputThrows ==
    /\ (cout.stage = "verified" /\ ~cout.result) =>
          cout.outcome = Returned(FALSE)
    /\ cout.stage = "verifiedMalformed" => ~cout.outcome.ok

\* C12: decryptAES called with a wrong key, a wrong IV or a corrupted
\* ciphertext throws; it returns no value.
C12_DecryptAESFailsOnWrongInput ==
    cout.stage = "aesDecrypted" => ~cout.result.ok

\* C13: when hybridDecrypt fails in the RSA layer for one input and in the
\* AES layer for another, its caller observes the same error value.
C13_SameErrorForBothLayers ==
    (cout.stage = "failedTwice" /\ ~cout.rsaLayer.ok /\ ~cout.aesLayer.ok) =>
        cout.rsaLayer = cout.aesLayer

\* C14: an upload persists the encrypted file and the Document record
\* together or not at all: no encrypted file remains on disk from an upload
\* that ended with an error and created no Document record.
C14_UploadPersistsAllOrNothing ==
    \A d \in DocIds : (disk[d] # Nil) <=> docs[d].exists

\* The codes issued so far for application a.
IssuedFor(a) == {issued[a][i] : i \in DOMAIN issued[a]}

\* Code c was issued for application a and a later issuance for a put
\* another code in its place.
Superseded(a, c) ==
    /\ c \in IssuedFor(a)
    /\ issued[a] # <<>>
    /\ issued[a][Len(issued[a])] # c

\* C15: lookup by code is an exact-match reverse lookup: the lookup of a
\* code issued for an application answers with that application, and the
\* lookup of a string that was never issued answers not found.
C15_LookupIsExactReverse ==
    response # Nil /\ response.kind = "lookup" =>
        /\ \A a \in VerifyAppIds :
              response.code \in IssuedFor(a) =>
                  response.status = 200 /\ response.application = a
        /\ (\A a \in VerifyAppIds : response.code \notin IssuedFor(a)) =>
              response.status = 404

\* C16: after an application is verified again and gets a new code, the
\* lookup of the code it had before still answers with that application.
C16_OldCodeRemainsValid ==
    \A a \in VerifyAppIds :
        (/\ response # Nil
         /\ response.kind = "lookup"
         /\ Superseded(a, response.code)) =>
            response.status = 200 /\ response.application = a

\* C17: the code GET /applications/:id shows to the student is the code of
\* the most recent issuance for the application (none when none was
\* issued), never the code of an earlier issuance nor one of another
\* application.
C17_AdvertisedCodeIsLatest ==
    response # Nil /\ response.kind = "application" =>
        LET a == response.application
            shown == response.verified_verification_code
        IN  /\ shown = IF issued[a] = <<>> THEN Undefined
                        ELSE issued[a][Len(issued[a])]
            /\ \A c \in IssuedFor(a) : Superseded(a, c) => shown # c
            /\ \A b \in VerifyAppIds \ {a} : shown \notin IssuedFor(b)

\* The student is shown the code of an application that was verified
\* twice, with two different codes, while the other application has a code
\* of its own.
C17_Witness ==
    /\ response # Nil
    /\ response.kind = "application"
    /\ Len(issued[response.application]) = 2
    /\ issued[response.application][1] # issued[response.application][2]
    /\ response.verified_verification_code = issued[response.application][2]
    /\ \E b \in VerifyAppIds \ {response.application} : issued[b] # <<>>

\* C18: every issued code is <PREFIX>-<application number>-<hash suffix>,
\* the suffix being the hash of (application id, student id, timestamp),
\* and parseVerificationCode recovers the application number from it.
C18_ParseRecoversApplicationNumber ==
    \A a \in VerifyAppIds : \A c \in IssuedFor(a) :
        LET parsed == parseVerificationCode(c)
            n == Len(apps[a].applicationNumber)
        IN  /\ SubSeq(c.parts, Len(c.parts) - n, Len(c.parts) - 1) =
                   apps[a].applicationNumber
            /\ \E ts \in 0..MaxTime :
                   c.parts[Len(c.parts)] =
                       Sha512Hex16(JSONstringify(
                           [applicationId |-> a,
                            studentId |-> apps[a].userId,
                            timestamp |-> ts]))
            /\ parsed.isValid
            /\ parsed.applicationNumber = apps[a].applicationNumber

\* The stored string is JSON.stringify({ data, iv }) with data the AES
\* ciphertext of a private key PEM under the process-wide secret.
EncryptedAtRest(stored) ==
    /\ stored.type = "json"
    /\ stored.obj.data.type = "aes"
    /\ stored.obj.data.key = AES_SECRET
    /\ stored.obj.data.text.type = "rsa-private"
    /\ stored.obj.iv.type = "iv"

\* The key pair stored for user u is the i-th generated for u, and the
\* path named by label generated it.
StoredFrom(u, label) ==
    \E i \in DOMAIN draws[u] :
        /\ draws[u][i] = label
        /\ users[u].exists
        /\ users[u].publicKey = NewKeyFields(<<u, i>>).publicKey
        /\ users[u].privateKey = NewKeyFields(<<u, i>>).privateKey

\* C19: a stored private key is held only in encrypted form: whichever
\* path persisted it (registration, Google sign-in, ensureUserKeys), the
\* field holds the AES ciphertext of the key under the process-wide secret
\* together with its IV, never the plaintext PEM.
C19_PrivateKeyEncryptedAtRest ==
    \A u \in Users :
        (users[u].exists /\ users[u].privateKey # Undefined) =>
            /\ users[u].privateKey.type # "rsa-private"
            /\ EncryptedAtRest(users[u].privateKey)

\* One user holds a private key persisted by ensureUserKeys while another
\* holds one persisted by Google sign-in or by the creation of the account.
C19_Witness ==
    \E u, v \in Users :
        /\ u # v
        /\ StoredFrom(u, "ensureUserKeys")
        /\ StoredFrom(v, "google") \/ StoredFrom(v, "User.create")

\* C20: once a user has a stored key pair, no operation on the user, the
\* applications or the documents removes or changes publicKey or
\* privateKey while the user exists.
C20_StoredKeyPairNeverChanges ==
    [][\A u \in Users :
         (users[u].exists /\ HasKeys(users[u]) /\ users'[u].exists) =>
            <<users'[u].publicKey, users'[u].privateKey>> =
                <<users[u].publicKey, users[u].privateKey>>]_vars

\* C21: an encrypted payload lives exactly as long as the Document record
\* that embeds it: while the record exists its payload is stored, and once
\* the record of an uploaded document is gone (deleted by its owner or
\* with its owning user) no encrypted payload of it remains stored.
C21_PayloadLivesWithRecord ==
    \A d \in DOMAIN docs :
        /\ docs[d].exists =>
              Truthy(docs[d].encryptedData) /\ disk[d] # Nil
        /\ (uploaded[d] # Nil /\ ~docs[d].exists) => disk[d] = Nil

\* The symmetric key a hybridEncrypt call used: the passphrase of its AES
\* ciphertext, which is also what its RSA ciphertext wraps.
SymmetricKeyOf(call) == call.enc.value.encryptedData.key

\* C22: every hybridEncrypt call uses a freshly generated symmetric key:
\* in a sequence of calls, for the same or different users and payloads,
\* no two calls use the same key, and no call uses the process-wide secret.
C22_FreshSymmetricKeyPerCall ==
    cout # Nil /\ cout.stage = "sequence" =>
        /\ \A i \in DOMAIN cout.calls :
              /\ cout.calls[i].enc.ok
              /\ SymmetricKeyOf(cout.calls[i]) # AES_SECRET
              /\ cout.calls[i].enc.value.encryptedKey.text =
                     SymmetricKeyOf(cout.calls[i])
        /\ \A i, j \in DOMAIN cout.calls :
              i # j => SymmetricKeyOf(cout.calls[i]) # SymmetricKeyOf(cout.calls[j])

\* Two calls with the same payload for the same user.
C22_Witness ==
    /\ cout # Nil
    /\ cout.stage = "sequence"
    /\ Len(cout.calls) = 2
    /\ cout.calls[1].payload = cout.calls[2].payload
    /\ cout.calls[1].user = cout.calls[2].user

C24_TokenOnlyAfterPasswordCheck ==
    (response # Nil /\ response.kind = "verify-mfa" /\ response.token) =>
        response.correct /\ response.afterPassword

\* C25: a code is never accepted by verifyOTP later than 5 minutes after
\* its own storeOTP call, and the code stored last for an e-mail stays in
\* the store during its own 5 minutes while it was not accepted and was
\* refused fewer than 3 times, whatever was stored before it and whenever
\* the timers of those fire.
C25_OtpLivesItsFiveMinutes ==
    /\ (response # Nil /\ response.kind = "verify-mfa" /\ response.valid) =>
          now <= otpLog[EmailKey(response.email)].at + OtpLifetime
    /\ \A e \in Emails :
          LET latest == otpLog[EmailKey(e)]
          IN  (/\ latest.n > 0
               /\ latest.accepted = 0
               /\ latest.failed < MaxAttempts
               /\ now < latest.at + OtpLifetime) =>
                 /\ otpStore[EmailKey(e)] # Absent
                 /\ otpStore[EmailKey(e)].n = latest.n

\* C26: once the stored code has 3 failed attempts, every further attempt
\* against it is refused, the correct code included: verifyOTP and
\* POST /auth/reset-password let a code pass only while the entry's failed
\* attempts are below 3, and an entry never counts more than 3.
C26_AttemptLimit ==
    [][\A e \in Emails :
         /\ (response' # Nil /\ response'.kind = "verify-mfa"
                /\ response'.email = e /\ response'.valid) =>
               /\ otpStore[EmailKey(e)] # Absent
               /\ otpStore[EmailKey(e)].attempts < MaxAttempts
         /\ \A s \in Slots :
               (reqs[s] = Idle /\ reqs'[s] # Idle
                   /\ reqs'[s].kind = "reset-password"
                   /\ reqs'[s].email = e) =>
                  /\ otpStore[ResetKey(e)] # Absent
                  /\ otpStore[ResetKey(e)].attempts < MaxAttempts
         /\ \A k \in {EmailKey(e), ResetKey(e)} :
               otpStore'[k] # Absent => otpStore'[k].attempts <= MaxAttempts
      ]_vars

\* The correct code was presented to verifyOTP after three wrong ones and
\* was refused.
C26_Witness ==
    /\ response # Nil
    /\ response.kind = "verify-mfa"
    /\ response.message = "Too many attempts"
    /\ response.correct
    /\ otpLog[EmailKey(response.email)].failed = MaxAttempts

\* C27: a code is single-use: once verifyOTP has accepted the code stored
\* for an e-mail the entry is gone, and no stored code, of login or of
\* password reset, is accepted a second time.
C27_CodesAreSingleUse ==
    /\ (response # Nil /\ response.kind = "verify-mfa" /\ response.valid) =>
          otpStore[EmailKey(response.email)] = Absent
    /\ (response # Nil /\ response.kind = "reset-password" /\ response.valid) =>
          otpStore[ResetKey(response.email)] = Absent
    /\ \A k \in DOMAIN otpLog : otpLog[k].accepted <= 1

\* The certificate fields of an application.
CertificateOf(application) ==
    <<application.verifiedVerificationCode,
      application.verifiedCertificateText,
      application.verifiedAt>>

\* The certificate fields issued for application a at time t.
CertificateIssuedAt(a, t) ==
    LET cert == generateVerifiedCertificateData(CertificateInput(a), t)
    IN  <<cert.verificationCode, cert.certificateText, t>>

ContentOf(application) ==
    <<application.personalStatement, application.encryptedData>>

\* The Document records of application a.
DocumentsOf(a, documents) ==
    {documents[d] : d \in {x \in DOMAIN documents :
                             documents[x].exists
                             /\ documents[x].applicationId = a}}

\* C28: once an application is submitted, under_review, verified, approved
\* or rejected, no student request changes its status, its content or its
\* documents: a submit leaves the status as it is, and the content and the
\* Document records of the application stay what they are.
C28_OnlyDraftsChange ==
    [][\A a \in DOMAIN apps :
         apps[a].exists /\ apps[a].status # "draft" =>
           /\ response' = Answer("submit", a, "submitted", 200)
                => apps'[a].status = apps[a].status
           /\ ContentOf(apps'[a]) = ContentOf(apps[a])
           /\ DocumentsOf(a, docs') = DocumentsOf(a, docs)]_vars

\* C29: at most one application exists per (student, scholarship) pair.
C29_OneApplicationPerPair ==
    \A a \in DOMAIN apps, b \in DOMAIN apps :
        a # b /\ apps[a].exists /\ apps[b].exists =>
            <<apps[a].userId, apps[a].scholarshipId>>
                # <<apps[b].userId, apps[b].scholarshipId>>
====
